---- MODULE Spec2Model ----
(***************************************************************************)
(* Model of src/app.py: the four score calculators (fib4, nfs, homa_ir,    *)
(* eAG_from_a1c), the two categorizers, the current-snapshot rendering,    *)
(* the lab-history block (lines 83-90) and the CGM block (lines 96-107).   *)
(*                                                                         *)
(* Python values are records [k, n, d]:                                    *)
(*   k = "None"   the Python None                                          *)
(*   k = "nan"    the float NaN (pandas' missing cell)                     *)
(*   k = "num"    the number n/d, kept in lowest terms with d > 0          *)
(*   k = "str"    a string cell; d = 1: the numeric string n, d = 0: text  *)
(*   k = "TypeError" | "ZeroDivisionError" | "ValueError"                  *)
(*                the evaluation raised that exception                     *)
(* Floating-point numbers are modelled by exact rationals; math.sqrt is    *)
(* exact on the perfect squares the inputs are drawn from.                 *)
(***************************************************************************)
EXTENDS Integers, Sequences, FiniteSets, TLC

VARIABLES pc, exc, call, inputs, scores, metrics, summary,
          labs_file, labs, cgm_file, cgm, stats, warnings

vars == <<pc, exc, call, inputs, scores, metrics, summary,
          labs_file, labs, cgm_file, cgm, stats, warnings>>

---------------------------------------------------------------------------
(* Python values                                                           *)

Abs(x) == IF x < 0 THEN -x ELSE x

RECURSIVE GCD(_, _)
GCD(a, b) == IF b = 0 THEN a ELSE GCD(b, a % b)

None == [k |-> "None", n |-> 0, d |-> 1]

NaN == [k |-> "nan", n |-> 0, d |-> 1]

Text == [k |-> "str", n |-> 0, d |-> 0]

NumStr(n) == [k |-> "str", n |-> n, d |-> 1]

Raise(e) == [k |-> e, n |-> 0, d |-> 1]

Num(n, d) ==
  LET g == GCD(Abs(n), Abs(d))
      s == IF d < 0 THEN -1 ELSE 1
  IN  [k |-> "num", n |-> s * (n \div g), d |-> s * (d \div g)]

Whole(n) == Num(n, 1)

IsExc(v) == v.k \in {"TypeError", "ZeroDivisionError", "ValueError"}

IsNum(v) == v.k = "num"

(* x is None *)
IsNone(v) == v.k = "None"

---------------------------------------------------------------------------
(* Exact arithmetic on numbers n/d                                         *)

RAdd(a, b) ==
  LET l == (a.d * b.d) \div GCD(a.d, b.d)
  IN  Num(a.n * (l \div a.d) + b.n * (l \div b.d), l)

RNeg(a) == Num(-a.n, a.d)

RMul(a, b) ==
  LET g1 == GCD(Abs(a.n), b.d)
      g2 == GCD(Abs(b.n), a.d)
  IN  Num((a.n \div g1) * (b.n \div g2), (a.d \div g2) * (b.d \div g1))

RInv(a) == Num(a.d, a.n)

RLt(a, b) == RAdd(a, RNeg(b)).n < 0

RLe(a, b) == RAdd(a, RNeg(b)).n <= 0

ISqrt(x) == CHOOSE s \in 0..x : s * s = x

---------------------------------------------------------------------------
(* Python operators on values. Operands are evaluated left to right, so an *)
(* exception raised by the left operand wins. A str operand ends in        *)
(* TypeError in every expression of app.py: float * str and str / float    *)
(* raise at once, and int * str (a repeated string) is always the operand  *)
(* of a following division, which raises.                                  *)

BadOperand(a, b) == a.k \in {"str", "None"} \/ b.k \in {"str", "None"}

Mul(a, b) ==
  IF IsExc(a) THEN a
  ELSE IF IsExc(b) THEN b
  ELSE IF BadOperand(a, b) THEN Raise("TypeError")
  ELSE IF a.k = "nan" \/ b.k = "nan" THEN NaN
  ELSE RMul(a, b)

Add(a, b) ==
  IF IsExc(a) THEN a
  ELSE IF IsExc(b) THEN b
  ELSE IF BadOperand(a, b) THEN Raise("TypeError")
  ELSE IF a.k = "nan" \/ b.k = "nan" THEN NaN
  ELSE RAdd(a, b)

Sub(a, b) ==
  IF IsExc(a) THEN a
  ELSE IF IsExc(b) THEN b
  ELSE IF BadOperand(a, b) THEN Raise("TypeError")
  ELSE IF a.k = "nan" \/ b.k = "nan" THEN NaN
  ELSE RAdd(a, RNeg(b))

(* a / b on Python scalars: a zero divisor raises, also under a NaN        *)
(* dividend.                                                               *)
Div(a, b) ==
  IF IsExc(a) THEN a
  ELSE IF IsExc(b) THEN b
  ELSE IF BadOperand(a, b) THEN Raise("TypeError")
  ELSE IF IsNum(b) /\ b.n = 0 THEN Raise("ZeroDivisionError")
  ELSE IF a.k = "nan" \/ b.k = "nan" THEN NaN
  ELSE RMul(a, RInv(b))

(* math.sqrt(x) *)
Sqrt(a) ==
  IF IsExc(a) THEN a
  ELSE IF a.k \in {"str", "None"} THEN Raise("TypeError")
  ELSE IF a.k = "nan" THEN NaN
  ELSE IF a.n < 0 THEN Raise("ValueError")
  ELSE Num(ISqrt(a.n), ISqrt(a.d))

(* x <= c, x < c: "T", "F", or "E" when the comparison raises TypeError    *)
(* (a str or None against a number). Every comparison with NaN is false.   *)
Le(a, c) ==
  IF a.k \in {"str", "None"} THEN "E"
  ELSE IF a.k = "nan" THEN "F"
  ELSE IF RLe(a, c) THEN "T" ELSE "F"

Lt(a, c) ==
  IF a.k \in {"str", "None"} THEN "E"
  ELSE IF a.k = "nan" THEN "F"
  ELSE IF RLt(a, c) THEN "T" ELSE "F"

(* The first exception raised by a sequence of evaluations, "none" if none *)
RECURSIVE FirstExc(_)
FirstExc(vals) ==
  IF vals = <<>> THEN "none"
  ELSE IF IsExc(Head(vals)) THEN Head(vals).k
  ELSE FirstExc(Tail(vals))

(* bool(x): None, 0 and 0.0 are falsy; NaN and every other number truthy   *)
Truthy(v) == ~(IsNone(v) \/ (IsNum(v) /\ v.n = 0))

---------------------------------------------------------------------------
(* Score calculators                                                       *)

fib4_no_platelet_guard(age, ast, alt, platelets) ==
  IF \E v \in {age, ast, alt, platelets} : IsNone(v) THEN None
  ELSE IF Le(alt, Whole(0)) = "E" THEN Raise("TypeError")
  ELSE IF Le(alt, Whole(0)) = "T" THEN None
  ELSE Div(Mul(age, ast), Mul(platelets, Sqrt(alt)))

fib4(age, ast, alt, platelets) ==
  IF \E v \in {age, ast, alt, platelets} : IsNone(v) THEN None
  ELSE IF Le(alt, Whole(0)) = "E" THEN Raise("TypeError")
  ELSE IF Le(alt, Whole(0)) = "T" THEN None
  ELSE IF Le(platelets, Whole(0)) = "E" THEN Raise("TypeError")
  ELSE IF Le(platelets, Whole(0)) = "T" THEN None
  ELSE Div(Mul(age, ast), Mul(platelets, Sqrt(alt)))

nfs(age, bmi, has_t2d, ast, alt, platelets, albumin) ==
  IF \E v \in {age, bmi, ast, alt, platelets, albumin} : IsNone(v) THEN None
  ELSE Sub(Sub(Add(Add(Add(Add(Num(-1675, 1000),
                               Mul(Num(37, 1000), age)),
                           Mul(Num(94, 1000), bmi)),
                       Mul(Num(113, 100), Whole(IF has_t2d THEN 1 ELSE 0))),
                   Mul(Num(99, 100), Div(ast, alt))),
               Mul(Num(13, 1000), platelets)),
           Mul(Num(66, 100), albumin))

homa_ir(glu_mg_dl, insulin_u_ml) ==
  IF IsNone(glu_mg_dl) \/ IsNone(insulin_u_ml) THEN None
  ELSE Div(Mul(insulin_u_ml, glu_mg_dl), Whole(405))

eAG_from_a1c(a1c) ==
  IF IsNone(a1c) THEN None
  ELSE Sub(Mul(Num(287, 10), a1c), Num(467, 10))

---------------------------------------------------------------------------
(* Categorizers. The label returned for None is the em-dash, written       *)
(* "Unknown" here; "TypeError" stands for the comparison raising.          *)

categorize_fib4_strict_upper(x) ==
  IF IsNone(x) THEN "Unknown"
  ELSE IF Lt(x, Num(13, 10)) = "E" THEN "TypeError"
  ELSE IF Lt(x, Num(13, 10)) = "T" THEN "Low"
  ELSE IF Lt(x, Num(267, 100)) = "T" THEN "Indeterminate"
  ELSE "High"

categorize_fib4(x) ==
  IF IsNone(x) THEN "Unknown"
  ELSE IF Lt(x, Num(13, 10)) = "E" THEN "TypeError"
  ELSE IF Lt(x, Num(13, 10)) = "T" THEN "Low"
  ELSE IF Le(x, Num(267, 100)) = "T" THEN "Indeterminate"
  ELSE "High"

categorize_nfs(x) ==
  IF IsNone(x) THEN "Unknown"
  ELSE IF Lt(x, Num(-1455, 1000)) = "E" THEN "TypeError"
  ELSE IF Lt(x, Num(-1455, 1000)) = "T" THEN "Low"
  ELSE IF Le(x, Num(676, 1000)) = "T" THEN "Indeterminate"
  ELSE "High"

---------------------------------------------------------------------------
(* Formatting and rounding                                                 *)

(* The integer nearest to n/d, a tie going to the even neighbour           *)
RoundHalfEven(r) ==
  LET q == r.n \div r.d
      rem2 == 2 * (r.n - q * r.d)
  IN  IF rem2 < r.d THEN q
      ELSE IF rem2 > r.d THEN q + 1
      ELSE IF q % 2 = 0 THEN q ELSE q + 1

RoundHalfUp(r) ==
  LET q == r.n \div r.d
      rem2 == 2 * (r.n - q * r.d)
  IN  IF rem2 < r.d THEN q ELSE q + 1

Dash == [k |-> "dash", n |-> 0, d |-> 1]

(* f"{x:.2f}" (scale = 100) and f"{x:.0f}" (scale = 1): the decimal text   *)
(* n/scale                                                                 *)
Format(x, scale) ==
  IF x.k = "nan" THEN [k |-> "text-nan", n |-> 0, d |-> 1]
  ELSE [k |-> "text", n |-> RoundHalfEven(RMul(x, Whole(scale))), d |-> scale]

(* f"{score:.2f}" if score else "-" *)
Metric(score, scale) == IF Truthy(score) THEN Format(score, scale) ELSE Dash

---------------------------------------------------------------------------
(* State of one script run                                                 *)

NoCall == [fn |-> "none", args |-> <<>>, flag |-> FALSE, ret |-> None, label |-> ""]

NoInputs ==
  [age |-> None, weight |-> None, height |-> None, ast |-> None, alt |-> None,
   plate |-> None, albumin |-> None, bmi |-> None, has_t2d |-> FALSE,
   fglu |-> None, fins |-> None, a1c |-> None]

NoScores == [FIB4 |-> None, NFS |-> None, HOMA |-> None, eAG |-> None]

NoMetrics == [FIB4 |-> Dash, NFS |-> Dash, HOMA |-> Dash, eAG |-> Dash]

NoSummary == [fib4 |-> "", nfs |-> ""]

NoStats == [tir |-> None, mean_glu |-> None, cv |-> None, lows |-> 0, highs |-> 0]

Blank(start) ==
  /\ pc = start
  /\ exc = "none"
  /\ call = NoCall
  /\ inputs = NoInputs
  /\ scores = NoScores
  /\ metrics = NoMetrics
  /\ summary = NoSummary
  /\ labs_file = <<>>
  /\ labs = <<>>
  /\ cgm_file = <<>>
  /\ cgm = <<>>
  /\ stats = NoStats
  /\ warnings = {}

---------------------------------------------------------------------------
(* Direct calls of the calculators and categorizers                        *)

CallAges == {None, Whole(0), Whole(52)}
CallAsts == {None, Whole(0), Whole(40)}
CallAlts == {None, Whole(-4), Whole(0), Whole(4), Whole(9)}
CallPlatelets == {None, Whole(-1), Whole(0), Whole(200)}
CallBmis == {None, Whole(30)}
CallAlbumins == {None, Whole(4)}
CallGlucoses == {None, Whole(0), Whole(120)}
CallInsulins == {None, Whole(0), Whole(18)}
CallA1cs == {None, Whole(4), Num(72, 10)}
CallFib4Scores ==
  {None, NaN, Whole(-1), Whole(0), Num(129, 100), Num(13, 10), Whole(2),
   Num(267, 100), Num(268, 100), Whole(5)}
CallNfsScores ==
  {None, NaN, Whole(-3), Num(-146, 100), Num(-1455, 1000), Whole(0),
   Num(676, 1000), Num(677, 1000), Whole(2)}

UnchangedRun ==
  UNCHANGED <<pc, exc, inputs, scores, metrics, summary,
              labs_file, labs, cgm_file, cgm, stats, warnings>>

Call_fib4 ==
  /\ pc = "calls"
  /\ \E age \in CallAges, ast \in CallAsts, alt \in CallAlts, platelets \in CallPlatelets :
       call' = [fn |-> "fib4", args |-> <<age, ast, alt, platelets>>, flag |-> FALSE,
                ret |-> fib4(age, ast, alt, platelets), label |-> ""]
  /\ UnchangedRun

Call_nfs ==
  /\ pc = "calls"
  /\ \E age \in CallAges \ {Whole(0)}, bmi \in CallBmis, has_t2d \in BOOLEAN,
        ast \in CallAsts, alt \in CallAlts \ {Whole(-4), Whole(9)},
        platelets \in CallPlatelets \ {Whole(-1), Whole(0)}, albumin \in CallAlbumins :
       call' = [fn |-> "nfs", args |-> <<age, bmi, ast, alt, platelets, albumin>>,
                flag |-> has_t2d,
                ret |-> nfs(age, bmi, has_t2d, ast, alt, platelets, albumin),
                label |-> ""]
  /\ UnchangedRun

Call_homa_ir ==
  /\ pc = "calls"
  /\ \E glu \in CallGlucoses, ins \in CallInsulins :
       call' = [fn |-> "homa_ir", args |-> <<glu, ins>>, flag |-> FALSE,
                ret |-> homa_ir(glu, ins), label |-> ""]
  /\ UnchangedRun

Call_eAG_from_a1c ==
  /\ pc = "calls"
  /\ \E a1c \in CallA1cs :
       call' = [fn |-> "eAG_from_a1c", args |-> <<a1c>>, flag |-> FALSE,
                ret |-> eAG_from_a1c(a1c), label |-> ""]
  /\ UnchangedRun

Call_categorize_fib4 ==
  /\ pc = "calls"
  /\ \E x \in CallFib4Scores :
       call' = [fn |-> "categorize_fib4", args |-> <<x>>, flag |-> FALSE,
                ret |-> None, label |-> categorize_fib4(x)]
  /\ UnchangedRun

Call_categorize_nfs ==
  /\ pc = "calls"
  /\ \E x \in CallNfsScores :
       call' = [fn |-> "categorize_nfs", args |-> <<x>>, flag |-> FALSE,
                ret |-> None, label |-> categorize_nfs(x)]
  /\ UnchangedRun

InitCalls == Blank("calls")

NextCalls ==
  \/ Call_fib4
  \/ Call_nfs
  \/ Call_homa_ir
  \/ Call_eAG_from_a1c
  \/ Call_categorize_fib4
  \/ Call_categorize_nfs

SpecCalls == InitCalls /\ [][NextCalls]_vars

---------------------------------------------------------------------------
(* Current snapshot: sidebar widgets, scores, metrics, risk summary        *)
(* (lines 40-77). Each st.number_input returns a number inside its         *)
(* [min, max] range, never None.                                          *)

SidebarAges == {Whole(18), Whole(52)}
SidebarWeights == {Whole(86)}
SidebarHeights == {Whole(170), Whole(200)}
SidebarAsts == {Whole(1), Whole(40)}
SidebarAlts == {Whole(1), Whole(4)}
SidebarPlates == {Whole(10), Whole(220)}
SidebarAlbumins == {Num(42, 10)}
SidebarFglus == {Whole(40), Whole(120)}
SidebarFinss == {Whole(0), Whole(18)}
SidebarA1cs == {Whole(4), Num(72, 10)}

UnchangedUploads == UNCHANGED <<call, labs_file, labs, cgm_file, cgm, stats, warnings>>

Sidebar ==
  /\ pc = "sidebar"
  /\ \E age \in SidebarAges, weight \in SidebarWeights, height \in SidebarHeights,
        ast \in SidebarAsts, alt \in SidebarAlts, plate \in SidebarPlates,
        albumin \in SidebarAlbumins, has_t2d \in BOOLEAN, fglu \in SidebarFglus,
        fins \in SidebarFinss, a1c \in SidebarA1cs :
       inputs' =
         [age |-> age, weight |-> weight, height |-> height, ast |-> ast,
          alt |-> alt, plate |-> plate, albumin |-> albumin,
          bmi |-> Div(weight, Mul(Div(height, Whole(100)), Div(height, Whole(100)))),
          has_t2d |-> has_t2d, fglu |-> fglu, fins |-> fins, a1c |-> a1c]
  /\ pc' = "scores"
  /\ UNCHANGED <<exc, scores, metrics, summary>>
  /\ UnchangedUploads

ComputeScores ==
  /\ pc = "scores"
  /\ scores' =
       [FIB4 |-> fib4(inputs.age, inputs.ast, inputs.alt, inputs.plate),
        NFS |-> nfs(inputs.age, inputs.bmi, inputs.has_t2d, inputs.ast, inputs.alt,
                    inputs.plate, inputs.albumin),
        HOMA |-> homa_ir(inputs.fglu, inputs.fins),
        eAG |-> eAG_from_a1c(inputs.a1c)]
  /\ exc' = FirstExc(<<scores'.FIB4, scores'.NFS, scores'.HOMA, scores'.eAG>>)
  /\ pc' = IF exc' = "none" THEN "metrics" ELSE "fault"
  /\ UNCHANGED <<inputs, metrics, summary>>
  /\ UnchangedUploads

RenderMetrics ==
  /\ pc = "metrics"
  /\ metrics' =
       [FIB4 |-> Metric(scores.FIB4, 100),
        NFS |-> Metric(scores.NFS, 100),
        HOMA |-> Metric(scores.HOMA, 100),
        eAG |-> Metric(scores.eAG, 1)]
  /\ pc' = "summary"
  /\ UNCHANGED <<exc, inputs, scores, summary>>
  /\ UnchangedUploads

RiskSummary ==
  /\ pc = "summary"
  /\ summary' = [fib4 |-> categorize_fib4(scores.FIB4), nfs |-> categorize_nfs(scores.NFS)]
  /\ pc' = "snapshot_done"
  /\ UNCHANGED <<exc, inputs, scores, metrics>>
  /\ UnchangedUploads

InitSnapshot == Blank("sidebar")

NextSnapshot ==
  \/ Sidebar
  \/ ComputeScores
  \/ RenderMetrics
  \/ RiskSummary

SpecSnapshot == InitSnapshot /\ [][NextSnapshot]_vars

---------------------------------------------------------------------------
(* Uploaded tables                                                         *)

MaxLabRows == 2

MaxCgmLen == 3

Columns ==
  {"age_years", "AST", "ALT", "platelets_10e9_L", "albumin_g_dL", "BMI", "has_t2d",
   "fasting_glucose_mg_dL", "fasting_insulin_u_mL", "HbA1c_pct"}

(* pd.read_csv infers one dtype per column: a column holding any           *)
(* non-numeric text is an object column whose numeric fields stay strings; *)
(* an empty field is NaN in either case.                                   *)
ReadCell(file, i, col) ==
  LET c == file[i][col]
  IN  IF IsNum(c) /\ (\E j \in 1..Len(file) : file[j][col] = Text) THEN NumStr(c.n)
      ELSE c

ReadCsv(file) ==
  [i \in 1..Len(file) |->
     [col \in DOMAIN file[i] |->
        IF col \in Columns THEN ReadCell(file, i, col) ELSE file[i][col]]]

IsSorted(frame) ==
  \A i \in 1..Len(frame) - 1 : frame[i].timestamp <= frame[i + 1].timestamp

Orders(n) == {o \in [1..n -> 1..n] : \A i, j \in 1..n : i # j => o[i] # o[j]}

Reorder(frame, o) == [i \in 1..Len(frame) |-> frame[o[i]]]

(* DataFrame.sort_values("timestamp") with the default kind="quicksort",   *)
(* which is not stable: every ascending arrangement of the rows is a       *)
(* possible result, rows that share a timestamp in any order.              *)
SortValues(frame) ==
  {Reorder(frame, o) : o \in {o \in Orders(Len(frame)) : IsSorted(Reorder(frame, o))}}

(* A column assigned from the results of apply: None becomes NaN as soon   *)
(* as the column holds a float.                                            *)
ToColumn(vals) ==
  [i \in 1..Len(vals) |->
     IF IsNone(vals[i]) /\ (\E j \in 1..Len(vals) : vals[j].k \in {"num", "nan"})
     THEN NaN ELSE vals[i]]

---------------------------------------------------------------------------
(* Lab-history block (lines 81-90)                                         *)

LabRows ==
  [timestamp : {1, 2},
   age_years : {Whole(52)},
   AST : {Whole(40)},
   ALT : {Whole(4), Whole(0), NaN, Text},
   platelets_10e9_L : {Whole(200), Text},
   albumin_g_dL : {Whole(4)},
   BMI : {Whole(30)},
   has_t2d : {Whole(0), Whole(1)},
   fasting_glucose_mg_dL : {Whole(100), NaN},
   fasting_insulin_u_mL : {Whole(10)},
   HbA1c_pct : {Whole(7)}]

LabFiles == UNION {[1..n -> LabRows] : n \in 1..MaxLabRows}

Fib4Column(frame) ==
  [i \in 1..Len(frame) |->
     fib4(frame[i].age_years, frame[i].AST, frame[i].ALT, frame[i].platelets_10e9_L)]

NfsColumn(frame) ==
  [i \in 1..Len(frame) |->
     nfs(frame[i].age_years, frame[i].BMI, Truthy(frame[i].has_t2d), frame[i].AST,
         frame[i].ALT, frame[i].platelets_10e9_L, frame[i].albumin_g_dL)]

HomaColumn(frame) ==
  [i \in 1..Len(frame) |->
     homa_ir(frame[i].fasting_glucose_mg_dL, frame[i].fasting_insulin_u_mL)]

EagColumn(frame) == [i \in 1..Len(frame) |-> eAG_from_a1c(frame[i].HbA1c_pct)]

ScoreColumns == {"FIB4", "NFS", "HOMA_IR", "eAG_mg_dl"}

(* Lines 85-90 on the sorted frame: the four columns are computed one      *)
(* after the other, each over all rows; the first exception ends the run   *)
(* before st.line_chart and st.dataframe show anything. The table is the   *)
(* frame labs as line 88 leaves it.                                        *)
LabsBlock(frame) ==
  LET f == Fib4Column(frame)
      g == NfsColumn(frame)
      h == HomaColumn(frame)
      e == EagColumn(frame)
      x == FirstExc(f \o g \o h \o e)
  IN  IF x # "none" THEN [exc |-> x, table |-> <<>>]
      ELSE [exc |-> "none",
            table |->
              [i \in 1..Len(frame) |->
                 [c \in DOMAIN frame[i] \cup ScoreColumns |->
                    IF c = "FIB4" THEN ToColumn(f)[i]
                    ELSE IF c = "NFS" THEN ToColumn(g)[i]
                    ELSE IF c = "HOMA_IR" THEN ToColumn(h)[i]
                    ELSE IF c = "eAG_mg_dl" THEN ToColumn(e)[i]
                    ELSE frame[i][c]]]]

(* Every result one run of the block can give on an uploaded file *)
LabsRuns(file) == {LabsBlock(frame) : frame \in SortValues(ReadCsv(file))}

UnchangedSnapshot == UNCHANGED <<call, inputs, scores, metrics, summary>>

(* st.file_uploader returns the chosen file, or None (written <<>>), and   *)
(* "if labs_file:" skips the block without one.                            *)
LabsUpload ==
  /\ pc = "labs_upload"
  /\ \E file \in LabFiles \cup {<<>>} :
       /\ labs_file' = file
       /\ pc' = IF file = <<>> THEN "labs_done" ELSE "labs"
  /\ UNCHANGED <<exc, labs, cgm_file, cgm, stats, warnings>>
  /\ UnchangedSnapshot

LabsAggregate ==
  /\ pc = "labs"
  /\ \E r \in LabsRuns(labs_file) :
       /\ labs' = r.table
       /\ exc' = r.exc
       /\ pc' = IF r.exc = "none" THEN "labs_done" ELSE "fault"
  /\ UNCHANGED <<labs_file, cgm_file, cgm, stats, warnings>>
  /\ UnchangedSnapshot

InitLabs == Blank("labs_upload")

NextLabs ==
  \/ LabsUpload
  \/ LabsAggregate

SpecLabs == InitLabs /\ [][NextLabs]_vars

---------------------------------------------------------------------------
(* CGM block (lines 94-107)                                                *)

GlucoseValues ==
  {Whole(0), Num(4, 100), Whole(65), Whole(70), Whole(180), Whole(250), Whole(251)}

CgmRows == [timestamp : {1, 2}, glucose_mg_dl : GlucoseValues]

(* The series 65, 75, 185, 120 in every order and under every timestamps   *)
SeriesRows == [timestamp : {1, 2}, glucose_mg_dl : {Whole(65), Whole(75), Whole(185), Whole(120)}]

SeriesFiles ==
  {f \in [1..4 -> SeriesRows] :
     \A i, j \in 1..4 : i # j => f[i].glucose_mg_dl # f[j].glucose_mg_dl}

CgmFiles == UNION {[1..n -> CgmRows] : n \in 1..MaxCgmLen} \cup SeriesFiles

RECURSIVE Sum(_)
Sum(vals) == IF vals = <<>> THEN Whole(0) ELSE RAdd(Head(vals), Sum(Tail(vals)))

(* Series.mean() *)
Mean(vals) == RMul(Sum(vals), Num(1, Len(vals)))

(* The order of a/b and c/d (-1, 0, 1) for naturals a, c and positive b, d *)
(* by continued fractions, which keeps every intermediate below the        *)
(* operands.                                                               *)
RECURSIVE CmpFrac(_, _, _, _)
CmpFrac(a, b, c, d) ==
  LET qa == a \div b
      qc == c \div d
      ra == a % b
      rc == c % d
  IN  IF qa < qc THEN -1
      ELSE IF qa > qc THEN 1
      ELSE IF ra = 0 /\ rc = 0 THEN 0
      ELSE IF ra = 0 THEN -1
      ELSE IF rc = 0 THEN 1
      ELSE CmpFrac(d, rc, b, ra)

(* The least c in lo..hi with (2c+1)^2 * p / q > r.n / r.d *)
RECURSIVE LeastAbove(_, _, _, _, _)
LeastAbove(lo, hi, p, q, r) ==
  IF lo = hi THEN lo
  ELSE LET mid == (lo + hi) \div 2
       IN  IF CmpFrac((2 * mid + 1) * (2 * mid + 1) * p, q, r.n, r.d) > 0
           THEN LeastAbove(lo, mid, p, q, r)
           ELSE LeastAbove(mid + 1, hi, p, q, r)

(* round(100 * std / mean, 1) for readings vals with a non-zero mean, in   *)
(* tenths: the integer nearest to 1000 * sqrt(R), where                    *)
(*   R = (std / mean)^2 = n * (n*Q - S^2) / ((n-1) * S^2),                 *)
(* S the sum and Q the sum of squares; std is the sample standard          *)
(* deviation (ddof = 1), the default of Series.std(). For readings >= 0,   *)
(* R <= n.                                                                 *)
CvTenths(vals) ==
  LET n == Len(vals)
      S == Sum(vals)
      Q == Sum([i \in 1..n |-> RMul(vals[i], vals[i])])
      S2 == RMul(S, S)
      D == RAdd(RMul(Whole(n), Q), RNeg(S2))
      l == (D.d * S2.d) \div GCD(D.d, S2.d)
      r == [n |-> D.n * (l \div D.d), d |-> S2.n * (l \div S2.d)]
      p == n - 1
      q == 4000000 * n
      c == LeastAbove(0, 1000 * n, p, q, r)
      tie == c > 0 /\ CmpFrac((2 * c - 1) * (2 * c - 1) * p, q, r.n, r.d) = 0
      m == IF tie /\ c % 2 = 1 THEN c - 1 ELSE c
  IN  IF S.n < 0 THEN -m ELSE m

Round1HalfUp(x) ==
  IF x.k = "nan" THEN NaN ELSE Num(RoundHalfUp(RMul(x, Whole(10))), 10)

(* round(x, 1) *)
Round1(x) ==
  IF x.k = "nan" THEN NaN ELSE Num(RoundHalfEven(RMul(x, Whole(10))), 10)

(* Series.between(70, 180).astype(int): both ends included *)
InRange(g) == IF RLe(Whole(70), g) /\ RLe(g, Whole(180)) THEN Whole(1) ELSE Whole(0)

Glucose(frame) == [i \in 1..Len(frame) |-> frame[i].glucose_mg_dl]

Tir(frame) ==
  Round1(RMul(Whole(100), Mean([i \in 1..Len(frame) |-> InRange(frame[i].glucose_mg_dl)])))

MeanGlu(frame) == Round1(Mean(Glucose(frame)))

(* Series.std() of a single reading is NaN, and so is the quotient *)
Cv(frame) ==
  IF ~Truthy(MeanGlu(frame)) THEN None
  ELSE IF Len(frame) = 1 THEN NaN
  ELSE Num(CvTenths(Glucose(frame)), 10)

Lows(frame) == Cardinality({i \in 1..Len(frame) : RLt(frame[i].glucose_mg_dl, Whole(70))})

Highs(frame) == Cardinality({i \in 1..Len(frame) : RLt(Whole(250), frame[i].glucose_mg_dl)})

LowAdvisoryOver2(frame) == IF Lows(frame) > 2 THEN {"low"} ELSE {}

LowAdvisory(frame) == IF Lows(frame) >= 2 THEN {"low"} ELSE {}

HighAdvisory(frame) == IF Highs(frame) >= 2 THEN {"high"} ELSE {}

(* Every sorted frame one run of line 97 can give on an uploaded file *)
CgmRuns(file) == SortValues(file)

CgmUpload ==
  /\ pc = "cgm_upload"
  /\ \E file \in CgmFiles \cup {<<>>} :
       /\ cgm_file' = file
       /\ pc' = IF file = <<>> THEN "cgm_done" ELSE "cgm"
  /\ UNCHANGED <<exc, labs_file, labs, cgm, stats, warnings>>
  /\ UnchangedSnapshot

CgmAggregate ==
  /\ pc = "cgm"
  /\ \E frame \in CgmRuns(cgm_file) :
       /\ cgm' = frame
       /\ stats' = [tir |-> Tir(frame), mean_glu |-> MeanGlu(frame), cv |-> Cv(frame),
                    lows |-> Lows(frame), highs |-> Highs(frame)]
       /\ warnings' = LowAdvisory(frame) \cup HighAdvisory(frame)
  /\ pc' = "cgm_done"
  /\ UNCHANGED <<exc, labs_file, labs, cgm_file>>
  /\ UnchangedSnapshot

InitCgm == Blank("cgm_upload")

NextCgm ==
  \/ CgmUpload
  \/ CgmAggregate

SpecCgm == InitCgm /\ [][NextCgm]_vars

---------------------------------------------------------------------------
(* Properties                                                              *)

(* A null result: None, or the NaN a table shows for a missing value *)
IsNull(v) == v.k \in {"None", "nan"}

(* How many readings of a file satisfy n/d < c, n/d > c, by integers *)
CountBelow(file, c) ==
  Cardinality({i \in 1..Len(file) :
                 file[i].glucose_mg_dl.n < c * file[i].glucose_mg_dl.d})

CountAbove(file, c) ==
  Cardinality({i \in 1..Len(file) :
                 file[i].glucose_mg_dl.n > c * file[i].glucose_mg_dl.d})

GlucoseSet(file) == {file[i].glucose_mg_dl : i \in 1..Len(file)}

(* C1: fib4 returns None, and raises nothing, whenever an argument is None *)
(* or alt <= 0 or platelets <= 0; on every other input it returns the      *)
(* number r with r * platelets * sqrt(alt) = age * ast.                    *)
C1_Fib4NullOrFormula ==
  call.fn = "fib4" =>
    LET age == call.args[1]
        ast == call.args[2]
        alt == call.args[3]
        platelets == call.args[4]
        r == call.ret
    IN  IF \/ \E i \in 1..4 : call.args[i].k = "None"
           \/ alt.n <= 0
           \/ platelets.n <= 0
        THEN r.k = "None"
        ELSE /\ r.k = "num"
             /\ \E s \in 1..alt.n :
                  /\ s * s * alt.d = alt.n
                  /\ r.n * platelets.n * s * age.d * ast.d
                       = age.n * ast.n * r.d * platelets.d

C1_Witness ==
  /\ call.fn = "fib4"
  /\ call.args = <<Whole(52), Whole(40), Whole(4), Whole(0)>>
  /\ call.ret = None

(* C2: each categorizer returns exactly one of the four bands: Unknown for *)
(* None and only for None, Low strictly below the lower threshold,         *)
(* Indeterminate from the lower to the upper threshold, both included,     *)
(* High strictly above the upper threshold (1.3 and 2.67 for FIB-4,        *)
(* -1.455 and 0.676 for NFS).                                              *)
C2_CategorizersPartition ==
  call.fn \in {"categorize_fib4", "categorize_nfs"} =>
    LET x == call.args[1]
        lo == IF call.fn = "categorize_fib4" THEN 1300 ELSE -1455
        hi == IF call.fn = "categorize_fib4" THEN 2670 ELSE 676
    IN  /\ call.label \in {"Unknown", "Low", "Indeterminate", "High"}
        /\ (call.label = "Unknown") <=> (x.k = "None")
        /\ x.k = "num" =>
             /\ (1000 * x.n < lo * x.d) <=> (call.label = "Low")
             /\ (lo * x.d <= 1000 * x.n /\ 1000 * x.n <= hi * x.d)
                  <=> (call.label = "Indeterminate")
             /\ (1000 * x.n > hi * x.d) <=> (call.label = "High")

C2_Witness ==
  /\ call.fn = "categorize_fib4"
  /\ call.args = <<Num(267, 100)>>
  /\ call.label = "Indeterminate"

(* C3: nfs called with every numeric argument present and alt = 0 returns  *)
(* None or a number: it raises nothing and returns no NaN, in a direct     *)
(* call and in a lab-history row whose ALT is 0.                           *)
C3_NfsZeroAltIsNullOrSentinel ==
  /\ (/\ call.fn = "nfs"
      /\ \A i \in 1..6 : call.args[i].k = "num"
      /\ call.args[4].n = 0)
       => call.ret.k \in {"None", "num"}
  /\ (/\ pc \in {"labs_done", "fault"}
      /\ \E i \in 1..Len(labs_file) :
           /\ labs_file[i].ALT = Whole(0)
           /\ \A c \in Columns : ReadCsv(labs_file)[i][c].k = "num")
       => exc # "ZeroDivisionError"

(* C4: a lab-history row whose ALT is missing gets a null FIB4 and a null  *)
(* NFS, and a non-null HOMA_IR and eAG when fasting glucose, fasting       *)
(* insulin and HbA1c are present; the row is kept, one result row per      *)
(* input row.                                                              *)
C4_MissingAltRowKept ==
  (/\ pc \in {"labs_done", "fault"}
   /\ \E i \in 1..Len(labs_file) : labs_file[i].ALT = NaN)
    => /\ Len(labs) = Len(labs_file)
       /\ \A i \in 1..Len(labs) :
            labs[i].ALT = NaN =>
              /\ IsNull(labs[i].FIB4)
              /\ IsNull(labs[i].NFS)
              /\ (labs[i].fasting_glucose_mg_dL.k = "num"
                    /\ labs[i].fasting_insulin_u_mL.k = "num")
                   => labs[i].HOMA_IR.k = "num"
              /\ labs[i].HbA1c_pct.k = "num" => labs[i].eAG_mg_dl.k = "num"

(* C5: the lab-history block completes on every table, also one with a     *)
(* non-numeric cell: no exception leaves it and every row has its result.  *)
C5_MalformedRowNeverAborts ==
  /\ pc # "fault"
  /\ pc = "labs_done" => Len(labs) = Len(labs_file)

(* C6: both blocks give the same output, sorted by timestamp, on every     *)
(* arrangement of the same rows, rows sharing a timestamp included, and    *)
(* again the same output when run on their own output.                     *)
C6_OrderIndependentIdempotent ==
  /\ (pc = "labs_done" /\ labs_file # <<>>) =>
       /\ IsSorted(labs)
       /\ \A o \in Orders(Len(labs_file)) :
            \A r \in LabsRuns(Reorder(labs_file, o)) : r.table = labs
       /\ \A r \in LabsRuns(labs) : r.table = labs
  /\ (pc = "cgm_done" /\ cgm_file # <<>>) =>
       /\ IsSorted(cgm)
       /\ \A o \in Orders(Len(cgm_file)) : CgmRuns(Reorder(cgm_file, o)) = {cgm}
       /\ CgmRuns(cgm) = {cgm}

(* C7 as stated: on the series 65, 75, 185, 120 the CGM block reports a    *)
(* time in range of 50.0, a mean glucose of 111.25, one low reading and no *)
(* high reading.                                                           *)
C7_SeriesSummaryAsStated ==
  (/\ pc = "cgm_done"
   /\ Len(cgm_file) = 4
   /\ GlucoseSet(cgm_file) = {Whole(65), Whole(75), Whole(185), Whole(120)})
    => /\ stats.tir = Whole(50)
       /\ stats.mean_glu = Num(11125, 100)
       /\ stats.lows = 1
       /\ stats.highs = 0

(* C7 amended: on the series 65, 75, 185, 120 the CGM block reports a time *)
(* in range of 50.0, a mean glucose of 111.2 (111.25 rounded to one        *)
(* decimal, the tie going to the even digit), one low reading and no high  *)
(* reading; on every series the time in range is the share of readings g   *)
(* with 70 <= g <= 180, within the rounding to one decimal, lows counts    *)
(* the readings < 70 and highs the readings > 250.                         *)
C7_SeriesSummary ==
  /\ (/\ pc = "cgm_done"
      /\ Len(cgm_file) = 4
      /\ GlucoseSet(cgm_file) = {Whole(65), Whole(75), Whole(185), Whole(120)})
       => /\ stats.tir = Whole(50)
          /\ stats.mean_glu = Num(1112, 10)
          /\ stats.lows = 1
          /\ stats.highs = 0
  /\ (pc = "cgm_done" /\ cgm_file # <<>>) =>
       LET n == Len(cgm_file)
           k == n - CountBelow(cgm_file, 70) - CountAbove(cgm_file, 180)
       IN  /\ stats.tir.k = "num"
           /\ stats.tir.d \in {1, 2, 5, 10}
           /\ 2 * Abs(stats.tir.n * n - 100 * k * stats.tir.d) * 10 <= n * stats.tir.d
           /\ stats.lows = CountBelow(cgm_file, 70)
           /\ stats.highs = CountAbove(cgm_file, 250)

C7_Witness ==
  /\ pc = "cgm_done"
  /\ Glucose(cgm_file) = <<Whole(65), Whole(75), Whole(185), Whole(120)>>
  /\ stats.mean_glu = Num(1112, 10)
  /\ stats.tir = Whole(50)

C9_CvNullIffMeanZero ==
  (pc = "cgm_done" /\ cgm_file # <<>>) =>
    /\ (stats.cv.k = "None") <=> (Sum(Glucose(cgm_file)).n = 0)
    /\ Sum(Glucose(cgm_file)).n # 0 => stats.cv.k = "num"

(* C10: a current-snapshot score is shown as the placeholder exactly when  *)
(* the calculator returned None; a score of zero is shown as a number.     *)
C10_PlaceholderIffNull ==
  pc \in {"summary", "snapshot_done"} =>
    \A f \in {"FIB4", "NFS", "HOMA", "eAG"} :
      (metrics[f].k = "dash") <=> (scores[f].k = "None")

====
